---- MODULE Spec2Model ----
(***************************************************************************)
(* Model of examples/client.py of scores-ws: the run() coroutine, the      *)
(* process_scores() consumption loop it starts as a task (first session)   *)
(* and awaits inline (resumed session), the two websocket connections,     *)
(* and the scores-ws server's side of the wire contract.                   *)
(*                                                                         *)
(* A connection s is modelled by conn[s] (its state as the client's        *)
(* websocket object sees it), inbound[s] (messages sent by the server and  *)
(* not yet read by the client, in FIFO order: in flight or buffered by     *)
(* the websocket object) and outbound[s] (messages sent by the client and  *)
(* not yet read by the server).                                            *)
(***************************************************************************)
EXTENDS Naturals, Sequences, FiniteSets

\* The grace window: the intent must be sent within 5 seconds of connecting.
GraceWindow == 5

\* Number of events the backend produces over one run.
MaxEvents == 3

\* Session 1 is the fresh one (line 9), session 2 the resumed one (line 34).
Sessions == {1, 2}

VARIABLES
    pc,         \* position of run()
    conn,       \* conn[s]: "none" | "open" | "closed" | "lost" | "srvclosed"
    inbound,    \* inbound[s]: server -> client messages not yet read
    outbound,   \* outbound[s]: client -> server messages not yet read
    outLog,     \* outLog[s]: every message the client has sent on s
    srv,        \* srv[s]: the server's view of connection s
    produced,   \* number of events the backend has produced so far
    bad,        \* ids of the produced events whose payload does not decode
    ppc,        \* ppc[s]: position of process_scores on session s
    cancelReq,  \* listening.cancel() was requested and not yet delivered
    cur,        \* cur[s]: the event bound by `async for event in websocket`
    consumed,   \* consumed[s]: events handed to the loop body, in order
    score_id    \* the local variable of run() assigned at line 28

vars == <<pc, conn, inbound, outbound, outLog, srv, produced, bad,
          ppc, cancelReq, cur, consumed, score_id>>

(***************************************************************************)
(* Messages.  Every message is a record so that sequences are homogeneous. *)
(***************************************************************************)
Msg(k, n, d) == [kind |-> k, id |-> n, ok |-> d]

\* "connect", line 12
CONNECT == Msg("connect", 0, TRUE)

\* "disconnect", line 25
DISCONNECT == Msg("disconnect", 0, TRUE)

\* The value of a variable that has not been assigned.
None == Msg("none", 0, TRUE)

\* The payload of event n: JSON bytes of a score; ok is whether lines 44-45
\* (json.loads and the three key lookups) succeed on it.
Event(n) == Msg("event", n, n \notin bad)

\* The checkpoint token naming "everything delivered up to event n".
Token(n) == Msg("token", n, TRUE)

\* States in which a process_scores invocation has ended.
Terminated == {"cancelled", "failed", "done"}

IsPrefix(p, q) == Len(p) <= Len(q) /\ \A i \in 1..Len(p) : p[i] = q[i]

Prefixes(q) == {SubSeq(q, 1, n) : n \in 0..Len(q)}

InitSrv == [st |-> "none", from |-> 0, cursor |-> 0, accepted |-> FALSE, age |-> 0]

Init ==
    /\ pc = "connect1"
    /\ conn = [s \in Sessions |-> "none"]
    /\ inbound = [s \in Sessions |-> <<>>]
    /\ outbound = [s \in Sessions |-> <<>>]
    /\ outLog = [s \in Sessions |-> <<>>]
    /\ srv = [s \in Sessions |-> InitSrv]
    /\ produced = 0
    /\ bad = {}
    /\ ppc = [s \in Sessions |-> "none"]
    /\ cancelReq = FALSE
    /\ cur = [s \in Sessions |-> None]
    /\ consumed = [s \in Sessions |-> <<>>]
    /\ score_id = None

(***************************************************************************)
(* Closing connections.  websocket.close() (line 29) and leaving an        *)
(* `async with connect(...)` block (lines 9 and 34) close the connection:  *)
(* whatever was buffered or in flight on it is discarded and the server    *)
(* sees the connection end.                                                *)
(***************************************************************************)
CloseConns(S) ==
    /\ conn' = [s \in Sessions |->
                   IF s \in S /\ conn[s] # "none" THEN "closed" ELSE conn[s]]
    /\ inbound' = [s \in Sessions |-> IF s \in S THEN <<>> ELSE inbound[s]]
    /\ outbound' = [s \in Sessions |-> IF s \in S THEN <<>> ELSE outbound[s]]
    /\ srv' = [s \in Sessions |->
                  IF s \in S /\ srv[s].st # "none"
                  THEN [srv[s] EXCEPT !.st = "gone"] ELSE srv[s]]

\* Mutant of Raise: after a failure run() starts over with a new connection.
Raise_Reconnect ==
    /\ pc' = "connect1"
    /\ CloseConns(Sessions)

\* An exception leaves run(): both `async with` blocks are exited.
Raise ==
    /\ pc' = "failed"
    /\ CloseConns(Sessions)

\* Mutant of Send: a send on a connection that has ended is silently skipped.
Send_NoRaise(s, m, next) ==
    /\ outbound' = [outbound EXCEPT ![s] = IF conn[s] = "open" THEN Append(@, m) ELSE @]
    /\ outLog' = [outLog EXCEPT ![s] = IF conn[s] = "open" THEN Append(@, m) ELSE @]
    /\ pc' = next
    /\ UNCHANGED <<conn, inbound, srv>>

\* websocket.send(m) on session s, then continue at `next`; on a connection
\* that is no longer open send raises ConnectionClosed.
Send(s, m, next) ==
    IF conn[s] = "open"
    THEN /\ outbound' = [outbound EXCEPT ![s] = Append(@, m)]
         /\ outLog' = [outLog EXCEPT ![s] = Append(@, m)]
         /\ pc' = next
         /\ UNCHANGED <<conn, inbound, srv>>
    ELSE /\ Raise
         /\ UNCHANGED outLog

\* connect("ws://127.0.0.1:7727") for session s: the transport handshake
\* succeeds and the server waits for the intent, or it raises.
Connect(s, next) ==
    \/ /\ conn' = [conn EXCEPT ![s] = "open"]
       /\ srv' = [srv EXCEPT ![s].st = "negotiating"]
       /\ pc' = next
       /\ UNCHANGED <<inbound, outbound>>
    \/ Raise

(***************************************************************************)
(* run(), lines 7-38.                                                      *)
(***************************************************************************)
\* line 9
Connect1 ==
    /\ pc = "connect1"
    /\ Connect(1, "send_connect")
    /\ UNCHANGED <<outLog, produced, bad, ppc, cancelReq, cur, consumed, score_id>>

\* Mutant of SendConnect: the intent is never sent before consumption starts.
SendConnect_Forgot ==
    /\ pc = "send_connect"
    /\ pc' = "create_task"
    /\ UNCHANGED <<conn, inbound, outbound, outLog, srv, produced, bad,
                   ppc, cancelReq, cur, consumed, score_id>>

\* line 12
SendConnect ==
    /\ pc = "send_connect"
    /\ Send(1, CONNECT, "create_task")
    /\ UNCHANGED <<produced, bad, ppc, cancelReq, cur, consumed, score_id>>

\* line 15: the task starts at the first `async for` step of process_scores
CreateTask ==
    /\ pc = "create_task"
    /\ ppc' = [ppc EXCEPT ![1] = "recv"]
    /\ pc' = "sleep1"
    /\ UNCHANGED <<conn, inbound, outbound, outLog, srv, produced, bad,
                   cancelReq, cur, consumed, score_id>>

\* line 16: the 10 second timer fires
Sleep1 ==
    /\ pc = "sleep1"
    /\ pc' = "cancel"
    /\ UNCHANGED <<conn, inbound, outbound, outLog, srv, produced, bad,
                   ppc, cancelReq, cur, consumed, score_id>>

\* Mutant of Cancel: cancelling the task also closes the connection.
Cancel_EndsSession ==
    /\ pc = "cancel"
    /\ ppc[1] # "body"
    /\ cancelReq' = (ppc[1] \notin Terminated)
    /\ pc' = "await_listening"
    /\ CloseConns({1})
    /\ UNCHANGED <<outLog, produced, bad, ppc, cur, consumed, score_id>>

\* line 17: listening.cancel() requests cancellation of a task that has not
\* ended, and does nothing to one that has.  run() and the task share one
\* event loop: run() executes only while the task is suspended in recv or
\* has ended, never between the task taking an event and finishing its body
Cancel ==
    /\ pc = "cancel"
    /\ ppc[1] # "body"
    /\ cancelReq' = (ppc[1] \notin Terminated)
    /\ pc' = "await_listening"
    /\ UNCHANGED <<conn, inbound, outbound, outLog, srv, produced, bad,
                   ppc, cur, consumed, score_id>>

\* Mutant of AwaitListening: every exception of the task is swallowed.
AwaitListening_SwallowAll ==
    /\ pc = "await_listening"
    /\ ppc[1] \in Terminated
    /\ pc' = "send_disconnect"
    /\ UNCHANGED <<conn, inbound, outbound, srv>>
    /\ UNCHANGED <<outLog, produced, bad, ppc, cancelReq, cur, consumed, score_id>>

\* Mutant of AwaitListening: run() goes on without waiting for the task.
AwaitListening_NoWait ==
    /\ pc = "await_listening"
    /\ IF ppc[1] = "failed"
       THEN Raise
       ELSE /\ pc' = "send_disconnect"
            /\ UNCHANGED <<conn, inbound, outbound, srv>>
    /\ UNCHANGED <<outLog, produced, bad, ppc, cancelReq, cur, consumed, score_id>>

\* lines 18-21: wait for the task to end; CancelledError is swallowed, any
\* other exception of the task leaves run()
AwaitListening ==
    /\ pc = "await_listening"
    /\ ppc[1] \in Terminated
    /\ IF ppc[1] = "failed"
       THEN Raise
       ELSE /\ pc' = "send_disconnect"
            /\ UNCHANGED <<conn, inbound, outbound, srv>>
    /\ UNCHANGED <<outLog, produced, bad, ppc, cancelReq, cur, consumed, score_id>>

\* line 25
SendDisconnect ==
    /\ pc = "send_disconnect"
    /\ Send(1, DISCONNECT, "recv_score_id")
    /\ UNCHANGED <<produced, bad, ppc, cancelReq, cur, consumed, score_id>>

\* Mutant of RecvScoreId: the received id is parsed and advanced by one.
RecvScoreId_Interpreted ==
    /\ pc = "recv_score_id"
    /\ IF inbound[1] # <<>>
       THEN /\ score_id' = Token(Head(inbound[1]).id + 1)
            /\ inbound' = [inbound EXCEPT ![1] = Tail(@)]
            /\ pc' = "close1"
            /\ UNCHANGED <<conn, outbound, srv>>
       ELSE /\ conn[1] # "open"
            /\ Raise
            /\ UNCHANGED score_id
    /\ UNCHANGED <<outLog, produced, bad, ppc, cancelReq, cur, consumed>>

\* line 28: recv() returns the next inbound message, whatever it is; once
\* the connection has ended and nothing is buffered it raises
RecvScoreId ==
    /\ pc = "recv_score_id"
    /\ IF inbound[1] # <<>>
       THEN /\ score_id' = Head(inbound[1])
            /\ inbound' = [inbound EXCEPT ![1] = Tail(@)]
            /\ pc' = "close1"
            /\ UNCHANGED <<conn, outbound, srv>>
       ELSE /\ conn[1] # "open"
            /\ Raise
            /\ UNCHANGED score_id
    /\ UNCHANGED <<outLog, produced, bad, ppc, cancelReq, cur, consumed>>

\* Mutant of Close1: websocket.close() is left out.
Close1_Forgot ==
    /\ pc = "close1"
    /\ pc' = "sleep2"
    /\ UNCHANGED <<conn, inbound, outbound, outLog, srv, produced, bad,
                   ppc, cancelReq, cur, consumed, score_id>>

\* line 29
Close1 ==
    /\ pc = "close1"
    /\ CloseConns({1})
    /\ pc' = "sleep2"
    /\ UNCHANGED <<outLog, produced, bad, ppc, cancelReq, cur, consumed, score_id>>

\* line 31
Sleep2 ==
    /\ pc = "sleep2"
    /\ pc' = "connect2"
    /\ UNCHANGED <<conn, inbound, outbound, outLog, srv, produced, bad,
                   ppc, cancelReq, cur, consumed, score_id>>

\* line 34
Connect2 ==
    /\ pc = "connect2"
    /\ Connect(2, "send_resume")
    /\ UNCHANGED <<outLog, produced, bad, ppc, cancelReq, cur, consumed, score_id>>

\* Mutant of SendResume: the second session subscribes afresh.
SendResume_Fresh ==
    /\ pc = "send_resume"
    /\ Send(2, CONNECT, "call_process")
    /\ UNCHANGED <<produced, bad, ppc, cancelReq, cur, consumed, score_id>>

\* Mutant of SendResume: the second session resumes from the initial
\* checkpoint instead of the one just received.
SendResume_FromStart ==
    /\ pc = "send_resume"
    /\ Send(2, Token(0), "call_process")
    /\ UNCHANGED <<produced, bad, ppc, cancelReq, cur, consumed, score_id>>

\* line 37
SendResume ==
    /\ pc = "send_resume"
    /\ Send(2, score_id, "call_process")
    /\ UNCHANGED <<produced, bad, ppc, cancelReq, cur, consumed, score_id>>

\* Mutant of CallProcess: process_scores is called on the first websocket.
CallProcess_OldSocket ==
    /\ pc = "call_process"
    /\ ppc' = [ppc EXCEPT ![1] = "recv"]
    /\ pc' = "await_process"
    /\ UNCHANGED <<conn, inbound, outbound, outLog, srv, produced, bad,
                   cancelReq, cur, consumed, score_id>>

\* line 38, the call: process_scores runs inside run()
CallProcess ==
    /\ pc = "call_process"
    /\ ppc' = [ppc EXCEPT ![2] = "recv"]
    /\ pc' = "await_process"
    /\ UNCHANGED <<conn, inbound, outbound, outLog, srv, produced, bad,
                   cancelReq, cur, consumed, score_id>>

\* line 38, the return: an exception of process_scores leaves run(); a
\* normal return ends run() and leaves both `async with` blocks
ReturnProcess ==
    /\ pc = "await_process"
    /\ ppc[2] \in Terminated
    /\ IF ppc[2] = "failed"
       THEN Raise
       ELSE /\ pc' = "done"
            /\ CloseConns(Sessions)
    /\ UNCHANGED <<outLog, produced, bad, ppc, cancelReq, cur, consumed, score_id>>

(***************************************************************************)
(* process_scores(websocket), lines 40-47, on session s.  `async for`      *)
(* awaits websocket.recv(); the loop body (lines 44-45) has no await, so   *)
(* a cancellation is delivered only while the loop waits in recv, and a    *)
(* cancelled recv leaves the messages it has not returned on the           *)
(* connection.                                                             *)
(***************************************************************************)
\* Mutant of ProcRecv: the newest message is taken instead of the oldest.
ProcRecv_Newest(s) ==
    /\ ppc[s] = "recv"
    /\ ~(s = 1 /\ cancelReq)
    /\ inbound[s] # <<>>
    /\ cur' = [cur EXCEPT ![s] = inbound[s][Len(inbound[s])]]
    /\ inbound' = [inbound EXCEPT ![s] = SubSeq(@, 1, Len(@) - 1)]
    /\ ppc' = [ppc EXCEPT ![s] = "body"]
    /\ UNCHANGED <<pc, conn, outbound, outLog, srv, produced, bad,
                   cancelReq, consumed, score_id>>

\* line 42: the next message is taken off the connection and bound to event
ProcRecv(s) ==
    /\ ppc[s] = "recv"
    /\ ~(s = 1 /\ cancelReq)
    /\ inbound[s] # <<>>
    /\ cur' = [cur EXCEPT ![s] = Head(inbound[s])]
    /\ inbound' = [inbound EXCEPT ![s] = Tail(@)]
    /\ ppc' = [ppc EXCEPT ![s] = "body"]
    /\ UNCHANGED <<pc, conn, outbound, outLog, srv, produced, bad,
                   cancelReq, consumed, score_id>>

\* lines 44-45: the body decodes and prints the event; a payload that does
\* not decode raises out of process_scores (line 46 catches CancelledError only)
ProcBody(s) ==
    /\ ppc[s] = "body"
    /\ consumed' = [consumed EXCEPT ![s] = Append(@, cur[s])]
    /\ ppc' = [ppc EXCEPT ![s] = IF cur[s].ok THEN "recv" ELSE "failed"]
    /\ cur' = [cur EXCEPT ![s] = None]
    /\ UNCHANGED <<pc, conn, inbound, outbound, outLog, srv, produced, bad,
                   cancelReq, score_id>>

\* Mutant of ProcClosed: a lost connection ends the iteration silently.
ProcClosed_Silent(s) ==
    /\ ppc[s] = "recv"
    /\ ~(s = 1 /\ cancelReq)
    /\ inbound[s] = <<>>
    /\ conn[s] \in {"lost", "srvclosed"}
    /\ ppc' = [ppc EXCEPT ![s] = "done"]
    /\ UNCHANGED <<pc, conn, inbound, outbound, outLog, srv, produced, bad,
                   cancelReq, cur, consumed, score_id>>

\* line 42 on a connection that has ended with nothing left to read: the
\* iteration ends normally after a normal closure and raises
\* ConnectionClosedError after an abnormal one
ProcClosed(s) ==
    /\ ppc[s] = "recv"
    /\ ~(s = 1 /\ cancelReq)
    /\ inbound[s] = <<>>
    /\ conn[s] \in {"lost", "srvclosed"}
    /\ ppc' = [ppc EXCEPT ![s] = IF conn[s] = "srvclosed" THEN "done" ELSE "failed"]
    /\ UNCHANGED <<pc, conn, inbound, outbound, outLog, srv, produced, bad,
                   cancelReq, cur, consumed, score_id>>

\* Mutant of ProcCancelled: process_scores swallows CancelledError and
\* returns normally.
ProcCancelled_Suppressed ==
    /\ ppc[1] = "recv"
    /\ cancelReq
    /\ ppc' = [ppc EXCEPT ![1] = "done"]
    /\ cancelReq' = FALSE
    /\ UNCHANGED <<pc, conn, inbound, outbound, outLog, srv, produced, bad,
                   cur, consumed, score_id>>

\* Mutant of ProcCancelled: the cancellation is noticed only once no
\* message is waiting to be read.
ProcCancelled_WhenIdle ==
    /\ ppc[1] = "recv"
    /\ cancelReq
    /\ inbound[1] = <<>>
    /\ ppc' = [ppc EXCEPT ![1] = "cancelled"]
    /\ cancelReq' = FALSE
    /\ UNCHANGED <<pc, conn, inbound, outbound, outLog, srv, produced, bad,
                   cur, consumed, score_id>>

\* Mutant of ProcCancelled: the cancelled recv loses the message it was
\* about to return.
ProcCancelled_LosesMessage ==
    /\ ppc[1] = "recv"
    /\ cancelReq
    /\ ppc' = [ppc EXCEPT ![1] = "cancelled"]
    /\ inbound' = [inbound EXCEPT ![1] = IF @ = <<>> THEN @ ELSE Tail(@)]
    /\ cancelReq' = FALSE
    /\ UNCHANGED <<pc, conn, outbound, outLog, srv, produced, bad,
                   cur, consumed, score_id>>

\* lines 46-47: CancelledError is thrown into the task at its await and
\* re-raised; the task ends cancelled
ProcCancelled ==
    /\ ppc[1] = "recv"
    /\ cancelReq
    /\ ppc' = [ppc EXCEPT ![1] = "cancelled"]
    /\ cancelReq' = FALSE
    /\ UNCHANGED <<pc, conn, inbound, outbound, outLog, srv, produced, bad,
                   cur, consumed, score_id>>

(***************************************************************************)
(* The scores-ws server and the transport: the wire contract the client    *)
(* relies on.                                                              *)
(***************************************************************************)
\* The backend fetches a new score.
ServerProduce ==
    /\ produced < MaxEvents
    /\ produced' = produced + 1
    /\ \E d \in BOOLEAN : bad' = IF d THEN bad ELSE bad \cup {produced + 1}
    /\ UNCHANGED <<pc, conn, inbound, outbound, outLog, srv,
                   ppc, cancelReq, cur, consumed, score_id>>

\* "connect": a fresh subscription delivers the events produced from now on.
ServerAcceptFresh(s) ==
    /\ srv[s].st = "negotiating"
    /\ outbound[s] # <<>>
    /\ Head(outbound[s]) = CONNECT
    /\ outbound' = [outbound EXCEPT ![s] = Tail(@)]
    /\ srv' = [srv EXCEPT ![s] = [st |-> "active", from |-> produced,
                                  cursor |-> produced, accepted |-> TRUE,
                                  age |-> 0]]
    /\ UNCHANGED <<pc, conn, inbound, outLog, produced, bad,
                   ppc, cancelReq, cur, consumed, score_id>>

\* A checkpoint token: the subscription resumes after the event it names.
ServerAcceptResume(s) ==
    /\ srv[s].st = "negotiating"
    /\ outbound[s] # <<>>
    /\ Head(outbound[s]).kind = "token"
    /\ outbound' = [outbound EXCEPT ![s] = Tail(@)]
    /\ srv' = [srv EXCEPT ![s] = [st |-> "active", from |-> Head(outbound[s]).id,
                                  cursor |-> Head(outbound[s]).id, accepted |-> TRUE,
                                  age |-> 0]]
    /\ UNCHANGED <<pc, conn, inbound, outLog, produced, bad,
                   ppc, cancelReq, cur, consumed, score_id>>

\* Any other first message is no intent: the server ends the connection.
ServerReject(s) ==
    /\ srv[s].st = "negotiating"
    /\ outbound[s] # <<>>
    /\ Head(outbound[s]).kind \notin {"connect", "token"}
    /\ conn' = [conn EXCEPT ![s] = "srvclosed"]
    /\ outbound' = [outbound EXCEPT ![s] = <<>>]
    /\ srv' = [srv EXCEPT ![s].st = "gone"]
    /\ UNCHANGED <<pc, inbound, outLog, produced, bad,
                   ppc, cancelReq, cur, consumed, score_id>>

\* Mutant of ServerSendEvent: events are sent before the intent is accepted.
ServerSendEvent_BeforeAccept(s) ==
    /\ srv[s].st \in {"negotiating", "active"}
    /\ srv[s].cursor < produced
    /\ inbound' = [inbound EXCEPT ![s] = Append(@, Event(srv[s].cursor + 1))]
    /\ srv' = [srv EXCEPT ![s].cursor = @ + 1]
    /\ UNCHANGED <<pc, conn, outbound, outLog, produced, bad,
                   ppc, cancelReq, cur, consumed, score_id>>

\* An active subscription is sent the next event it has not been sent yet.
ServerSendEvent(s) ==
    /\ srv[s].st = "active"
    /\ srv[s].cursor < produced
    /\ inbound' = [inbound EXCEPT ![s] = Append(@, Event(srv[s].cursor + 1))]
    /\ srv' = [srv EXCEPT ![s].cursor = @ + 1]
    /\ UNCHANGED <<pc, conn, outbound, outLog, produced, bad,
                   ppc, cancelReq, cur, consumed, score_id>>

\* "disconnect": the server answers with one checkpoint token, naming the
\* last event it sent on this connection, and sends nothing after it.
ServerDisconnect(s) ==
    /\ srv[s].st = "active"
    /\ outbound[s] # <<>>
    /\ Head(outbound[s]) = DISCONNECT
    /\ outbound' = [outbound EXCEPT ![s] = Tail(@)]
    /\ inbound' = [inbound EXCEPT ![s] = Append(@, Token(srv[s].cursor))]
    /\ srv' = [srv EXCEPT ![s].st = "suspended"]
    /\ UNCHANGED <<pc, conn, outLog, produced, bad,
                   ppc, cancelReq, cur, consumed, score_id>>

\* A second passes on a connection whose intent has not been sent yet.
GraceTick(s) ==
    /\ srv[s].st = "negotiating"
    /\ outbound[s] = <<>>
    /\ srv[s].age < GraceWindow
    /\ srv' = [srv EXCEPT ![s].age = @ + 1]
    /\ UNCHANGED <<pc, conn, inbound, outbound, outLog, produced, bad,
                   ppc, cancelReq, cur, consumed, score_id>>

\* The grace window ends with no intent sent: the server abandons the
\* connection (age beyond GraceWindow records it).
GraceExpire(s) ==
    /\ srv[s].st = "negotiating"
    /\ outbound[s] = <<>>
    /\ srv[s].age = GraceWindow
    /\ conn' = [conn EXCEPT ![s] = "srvclosed"]
    /\ srv' = [srv EXCEPT ![s].st = "gone", ![s].age = GraceWindow + 1]
    /\ UNCHANGED <<pc, inbound, outbound, outLog, produced, bad,
                   ppc, cancelReq, cur, consumed, score_id>>

\* The server ends the connection with a normal closing handshake: what it
\* sent before is still delivered.
ServerClose(s) ==
    /\ conn[s] = "open"
    /\ conn' = [conn EXCEPT ![s] = "srvclosed"]
    /\ outbound' = [outbound EXCEPT ![s] = <<>>]
    /\ srv' = [srv EXCEPT ![s].st = "gone"]
    /\ UNCHANGED <<pc, inbound, outLog, produced, bad,
                   ppc, cancelReq, cur, consumed, score_id>>

\* The connection is lost: messages still in flight never arrive.
Drop(s) ==
    /\ conn[s] = "open"
    /\ conn' = [conn EXCEPT ![s] = "lost"]
    /\ \E q \in Prefixes(inbound[s]) : inbound' = [inbound EXCEPT ![s] = q]
    /\ outbound' = [outbound EXCEPT ![s] = <<>>]
    /\ srv' = [srv EXCEPT ![s].st = "gone"]
    /\ UNCHANGED <<pc, outLog, produced, bad,
                   ppc, cancelReq, cur, consumed, score_id>>

Next ==
    \/ Connect1 \/ SendConnect \/ CreateTask \/ Sleep1 \/ Cancel
    \/ AwaitListening \/ SendDisconnect \/ RecvScoreId \/ Close1 \/ Sleep2
    \/ Connect2 \/ SendResume \/ CallProcess \/ ReturnProcess
    \/ ProcCancelled
    \/ ServerProduce
    \/ \E s \in Sessions :
          \/ ProcRecv(s) \/ ProcBody(s) \/ ProcClosed(s)
          \/ ServerAcceptFresh(s) \/ ServerAcceptResume(s) \/ ServerReject(s)
          \/ ServerSendEvent(s) \/ ServerDisconnect(s)
          \/ GraceTick(s) \/ GraceExpire(s)
          \/ ServerClose(s) \/ Drop(s)

Spec == Init /\ [][Next]_vars

(***************************************************************************)
(* Properties.                                                             *)
(***************************************************************************)
\* Positions of run() after websocket.close() of line 29 has returned.
AfterSuspend == {"sleep2", "connect2", "send_resume", "call_process",
                 "await_process", "done"}

\* The events the server has sent on connection s, in the order sent.
SentEvents(s) ==
    [i \in 1..(srv[s].cursor - srv[s].from) |-> Event(srv[s].from + i)]

\* The events among the messages still unread on connection s.
PendingEvents(s) == SelectSeq(inbound[s], LAMBDA m : m.kind = "event")

\* C1: the one message read at line 28 after "disconnect" is the server's
\* checkpoint token: score_id never holds an event payload, and the first
\* connection is closed at line 29 only once that message has been read.
C1_ScoreIdIsCheckpoint ==
    /\ score_id # None => score_id.kind = "token"
    /\ pc \in AfterSuspend => score_id # None

\* The event process_scores has taken off connection s and not yet handed on.
Held(s) == IF cur[s] = None THEN <<>> ELSE <<cur[s]>>

\* The events with ids c+1 .. n, in order.
EventsAfter(c, n) == [i \in 1..(n - c) |-> Event(c + i)]

Ids(q) == {q[i].id : i \in 1..Len(q)}

\* C2: across a graceful suspend no event is lost: once the first
\* connection has been closed after the handshake, every event the server
\* sent on it was handed to the consumer in the first session, or lies after
\* the checkpoint held in score_id, so that the resumed session delivers it.
C2_NoEventLost ==
    pc \in AfterSuspend =>
        \A i \in 1..Len(SentEvents(1)) :
            \/ SentEvents(1)[i].id \in Ids(consumed[1])
            \/ score_id.kind = "token" /\ score_id.id < SentEvents(1)[i].id

\* C3: a session resumed with checkpoint C omits no event after C: what the
\* consumer was handed, followed by what is still on its way to it, is the
\* unbroken run of events C+1, C+2, ... up to the last one the server has
\* sent, and when run() returns normally the consumer was handed all of them.
C3_ResumeContinuity ==
    (srv[2].accepted /\ score_id.kind = "token") =>
        /\ IsPrefix(consumed[2] \o Held(2) \o inbound[2],
                    EventsAfter(score_id.id, srv[2].cursor))
        /\ conn[2] \in {"open", "srvclosed"} =>
               consumed[2] \o Held(2) \o inbound[2]
                   = EventsAfter(score_id.id, srv[2].cursor)
        /\ pc = "done" =>
               consumed[2] = EventsAfter(score_id.id, srv[2].cursor)

C3_Witness ==
    /\ srv[2].accepted
    /\ score_id.kind = "token"
    /\ score_id.id >= 1
    /\ Len(consumed[2]) >= 2

C5_Ordering ==
    \A s \in Sessions :
        /\ IsPrefix(consumed[s] \o Held(s), SentEvents(s))
        /\ (ppc[s] \in {"recv", "body"} /\ conn[s] \in {"open", "srvclosed"}) =>
               consumed[s] \o Held(s) \o inbound[s] = SentEvents(s)

C5_Witness ==
    \E s \in Sessions :
        /\ ppc[s] = "recv"
        /\ Len(consumed[s]) >= 2
        /\ inbound[s] # <<>>

\* C6: a cancelled consumption task has handed a whole prefix of the sent
\* events to the consumer and holds no event it took and did not hand on;
\* until run() reads from the connection itself (line 28), every sent event
\* is either consumed or still unread on the connection.
C6_CancellationSafety ==
    ppc[1] = "cancelled" =>
        /\ cur[1] = None
        /\ IsPrefix(consumed[1], SentEvents(1))
        /\ (pc \in {"await_listening", "send_disconnect", "recv_score_id"}
              /\ conn[1] \in {"open", "srvclosed"}) =>
               consumed[1] \o PendingEvents(1) = SentEvents(1)

C6_Witness ==
    /\ ppc[1] = "cancelled"
    /\ pc = "await_listening"
    /\ consumed[1] # <<>>
    /\ inbound[1] # <<>>

\* C7: the suspend steps (lines 25, 28, 29) run only once the consumption
\* task has ended: the loop and the checkpoint read never both wait on the
\* first connection.
C7_SuspendExclusive ==
    pc \in {"send_disconnect", "recv_score_id", "close1"} => ppc[1] \in Terminated

C7_Witness ==
    /\ pc = "recv_score_id"
    /\ ppc[1] = "cancelled"
    /\ conn[1] = "open"

C10_CancelKeepsConnection ==
    /\ [][((pc = "cancel" /\ pc' = "await_listening")
             \/ (ppc[1] # "cancelled" /\ ppc'[1] = "cancelled"))
            => UNCHANGED <<conn, inbound, outbound>>]_vars
    /\ []((ppc[1] = "cancelled"
             /\ pc \in {"await_listening", "send_disconnect", "recv_score_id", "close1"})
            => conn[1] # "closed")

C10_Witness ==
    /\ ppc[1] = "cancelled"
    /\ pc = "close1"
    /\ conn[1] = "open"
    /\ score_id.kind = "token"

(***************************************************************************)
(* Scheduling.  The event loop runs every coroutine that is ready: each    *)
(* step of run() and of process_scores that stays enabled is eventually    *)
(* taken.  Nothing is assumed of the server or of the transport.           *)
(***************************************************************************)
FairSpec ==
    /\ Spec
    /\ WF_vars(Connect1) /\ WF_vars(SendConnect) /\ WF_vars(CreateTask)
    /\ WF_vars(Sleep1) /\ WF_vars(Cancel) /\ WF_vars(AwaitListening)
    /\ WF_vars(SendDisconnect) /\ WF_vars(RecvScoreId) /\ WF_vars(Close1)
    /\ WF_vars(Sleep2) /\ WF_vars(Connect2) /\ WF_vars(SendResume)
    /\ WF_vars(CallProcess) /\ WF_vars(ReturnProcess)
    /\ WF_vars(ProcCancelled)
    /\ \A s \in Sessions :
          WF_vars(ProcRecv(s)) /\ WF_vars(ProcBody(s)) /\ WF_vars(ProcClosed(s))

\* C11: a caller-initiated cancellation is not an error: once requested it
\* is the only way the task ends, the task ends cancelled (not failed, not
\* returned), and `await listening` then continues with the suspend
\* handshake instead of failing.
C11_CancellationNotAnError ==
    /\ [](cancelReq => ppc[1] = "recv")
    /\ [][(cancelReq /\ ppc'[1] # ppc[1]) => (ppc'[1] = "cancelled" /\ ~cancelReq')]_vars
    /\ [][(pc = "await_listening" /\ ppc[1] = "cancelled" /\ pc' # pc)
            => (pc' = "send_disconnect" /\ UNCHANGED <<conn, inbound, outbound>>)]_vars

C11_Witness ==
    /\ pc = "send_disconnect"
    /\ ppc[1] = "cancelled"
    /\ consumed[1] # <<>>

\* The connection of session s was lost before the client began to suspend
\* it: during negotiation or consumption.
Interrupted(s) ==
    /\ conn[s] = "lost"
    /\ DISCONNECT \notin {outLog[s][i] : i \in 1..Len(outLog[s])}

\* C12: a connection lost during consumption ends the session in failure:
\* from then on run() can only end failed, the loss observed by
\* process_scores ends it failed (not cancelled, not returned), a
\* consumption that has ended hands on nothing more, and no checkpoint is
\* read on that session; under fair scheduling run() does end failed.
C12_StreamInterrupted ==
    /\ [][\A s \in Sessions :
            /\ Interrupted(s) => (Interrupted(s)' \/ pc' = "failed")
            /\ (ppc[s] = "recv" /\ conn[s] = "lost" /\ ~cancelReq /\ ppc'[s] # ppc[s])
                  => ppc'[s] \in {"body", "failed"}
            /\ ppc[s] = "failed" => (ppc'[s] = "failed" /\ consumed'[s] = consumed[s])]_vars
    /\ [](Interrupted(1) => score_id = None)
    /\ \A s \in Sessions : Interrupted(s) ~> pc = "failed"

C12_Witness ==
    /\ pc = "failed"
    /\ ppc[2] = "failed"
    /\ consumed[2] # <<>>
    /\ consumed[2][Len(consumed[2])].ok

\* C13: a resume intent is sent only after a checkpoint response was
\* received on the first session: whenever something was sent on the second
\* connection, score_id holds a checkpoint token.
C13_ResumeOnlyAfterCheckpoint ==
    outLog[2] # <<>> => score_id.kind = "token"

\* The messages of a sequence, as a set.
Range(q) == {q[i] : i \in 1..Len(q)}

C16_OpaqueCheckpoint ==
    /\ [][(pc = "recv_score_id" /\ pc' = "close1") => score_id' = Head(inbound[1])]_vars
    /\ [][score_id # None => score_id' = score_id]_vars
    /\ [](outLog[2] \in {<<>>, <<score_id>>})
    /\ [](score_id # None => score_id \notin Range(outLog[1]))

C16_Witness ==
    /\ outLog[2] = <<score_id>>
    /\ score_id.kind = "token"
    /\ score_id.id >= 1

\* C17: cancellation is prompt: once requested, no further event is handed
\* to the consumer, and under fair scheduling the task ends cancelled and
\* `await listening` returns, whatever the server goes on sending.
C17_PromptCancellation ==
    /\ [][cancelReq => consumed'[1] = consumed[1]]_vars
    /\ cancelReq ~> ppc[1] = "cancelled"
    /\ pc = "await_listening" ~> pc \in {"send_disconnect", "failed"}

C17_Witness ==
    /\ pc = "send_disconnect"
    /\ ppc[1] = "cancelled"
    /\ Len(inbound[1]) >= 2

\* C18: consumption on a session is not restartable: once process_scores
\* has ended on a session it never runs or hands on an event there again,
\* and events of the second session are handed on only after its intent was
\* sent, the first consumption has ended and the first connection is closed.
C18_NotRestartable ==
    /\ [][\A s \in Sessions :
            ppc[s] \in Terminated =>
                (ppc'[s] = ppc[s] /\ consumed'[s] = consumed[s] /\ cur'[s] = cur[s])]_vars
    /\ []((consumed[2] # <<>> \/ cur[2] # None) =>
              (outLog[2] # <<>> /\ ppc[1] \in Terminated /\ conn[1] = "closed"))

C18_Witness ==
    /\ ppc[1] = "cancelled"
    /\ consumed[1] # <<>>
    /\ consumed[2] # <<>>
    /\ ppc[2] = "recv"

\* C19: at most one connection is open at a time: the second is opened
\* only after the client closed the first, and a closed first connection
\* stays closed with nothing sent or received on it, also when run()
\* leaves the outer block.
C19_OneConnection ==
    /\ [](~(conn[1] = "open" /\ conn[2] = "open"))
    /\ [](pc \in {"send_resume", "call_process", "await_process"} => conn[1] = "closed")
    /\ [][conn[1] = "closed" =>
            (conn'[1] = "closed" /\ outLog'[1] = outLog[1]
               /\ inbound'[1] = <<>> /\ outbound'[1] = <<>>)]_vars

C19_Witness ==
    /\ pc = "done"
    /\ conn[1] = "closed"
    /\ conn[2] = "closed"
    /\ consumed[2] # <<>>

\* C20: only cancellation is swallowed at `await listening`: once the task
\* has failed by itself it consumes nothing more, the cancel request does
\* nothing, run() can only go on to fail at line 19 and, under fair
\* scheduling, does; neither "disconnect" nor a resume intent is sent.
C20_TaskFailurePropagates ==
    /\ [](ppc[1] = "failed" =>
             /\ ~cancelReq
             /\ score_id = None
             /\ DISCONNECT \notin Range(outLog[1])
             /\ outLog[2] = <<>>
             /\ pc \in {"sleep1", "cancel", "await_listening", "failed"})
    /\ [][ppc[1] = "failed" =>
            (ppc'[1] = "failed" /\ consumed'[1] = consumed[1] /\ cur'[1] = cur[1]
               /\ (pc' # pc => pc' \in {"cancel", "await_listening", "failed"}))]_vars
    /\ ppc[1] = "failed" ~> pc = "failed"

C20_Witness ==
    /\ pc = "await_listening"
    /\ ppc[1] = "failed"
    /\ consumed[1] # <<>>
    /\ ~consumed[1][Len(consumed[1])].ok
    /\ inbound[1] # <<>>
    /\ conn[1] = "open"

====
